---- MODULE Spec2Model ----
(***************************************************************************)
(* Offline-aware entity store of the library client (BookService and its   *)
(* four copies AuthorService, PublisherService, CategoryService and        *)
(* BorrowService).  One store instance is modelled together with the       *)
(* remote endpoint it talks to.  Every async method is split at its single *)
(* await: the part up to the await is the action named after the method,   *)
(* the continuation after the promise settles is its "Resume" action.      *)
(* Spec drives the store with every operation; EditSpec drives it with     *)
(* update, delete and getById only, over one more caller operation.        *)
(***************************************************************************)
EXTENDS Integers, Sequences, FiniteSets, TLC

\* ---------------------------------------------------------------- bounds
MaxOps == 3        \* caller operations issued in one behaviour
MaxInFlight == 2   \* caller operations awaiting their remote call at once
MaxTime == 2       \* largest value Date.now() takes
MaxIdArg == 2      \* caller passes ids 1..MaxIdArg (and every id it can see)
MaxEditOps == 4    \* caller operations issued in one behaviour of EditSpec
MaxPairOps == 2    \* caller operations issued in one behaviour of PairSpec
MaxZeroOps == 2    \* caller operations issued in one behaviour of ZeroSpec
MaxConvergeOps == 4 \* caller operations issued in one behaviour of ConvergeSpec

\* ------------------------------------------------- JavaScript number model
NegInfinity == 0 - 1000   \* Math.max() of no arguments
NaN == 0 - 2000           \* Math.max(..., undefined)
Undefined == 0 - 3000     \* a missing id property

\* x + 1 in IEEE arithmetic: -Infinity and NaN absorb the addition
Plus1(x) == IF x = Undefined THEN NaN ELSE IF x \in {NegInfinity, NaN} THEN x ELSE x + 1

\* if (change.id): 0, NaN and undefined are falsy, every other number truthy
Truthy(x) == x \notin {0, NaN, Undefined}

\* ---------------------------------------------------------------- entities
Names == {"B"}
ServerName == "S"
Hole == [id |-> Undefined, name |-> "<hole>"]        \* empty slot of a sparse array
EmptyData == [id |-> Undefined, name |-> "<none>"]   \* the {} payload of a delete change
NoEntity == [id |-> Undefined, name |-> "<undefined>"]
\* booksData: the seed file holds one record or two
Seeds == { << [id |-> 1, name |-> "A"] >>,
           << [id |-> 1, name |-> "A"], [id |-> 2, name |-> "A"] >> }

Range(s) == {s[i] : i \in 1..Len(s)}

\* this.books.map(b => b.id), spread: a hole is read as undefined
IdsOf(bs) == [i \in 1..Len(bs) |-> bs[i].id]

RECURSIVE MaxFrom(_, _, _)
MaxFrom(xs, i, acc) ==
  IF i > Len(xs) THEN acc
  ELSE IF xs[i] \in {NaN, Undefined} \/ acc = NaN THEN NaN
  ELSE MaxFrom(xs, i + 1, IF xs[i] > acc THEN xs[i] ELSE acc)

\* Math.max(...xs)
MathMax(xs) == MaxFrom(xs, 1, NegInfinity)

\* an id taken from the length of the collection instead of its largest id
NextIdFromLength(bs) == Len(bs) + 1

\* id: Math.max(...this.books.map(b => b.id)) + 1
NextId(bs) == Plus1(MathMax(IdsOf(bs)))

\* findIndex(b => b.id === id), 1-based; 0 stands for -1; reading .id of a
\* hole (undefined) throws a TypeError: ThrowIndex
ThrowIndex == 0 - 1
RECURSIVE FindFrom(_, _, _)
FindFrom(bs, id, i) ==
  IF i > Len(bs) THEN 0
  ELSE IF bs[i] = Hole THEN ThrowIndex
  ELSE IF bs[i].id = id /\ id # NaN THEN i
  ELSE FindFrom(bs, id, i + 1)

FindIndex(bs, id) == FindFrom(bs, id, 1)

\* splice(index, 1) with a 0-based index >= length removes nothing
Splice(bs, k) ==
  IF k > Len(bs) THEN bs
  ELSE [i \in 1..(Len(bs) - 1) |-> IF i < k THEN bs[i] ELSE bs[i + 1]]

\* this.books[index] = x: beyond the end the array grows, leaving holes
SetAt(bs, k, x) ==
  IF k <= Len(bs) THEN [bs EXCEPT ![k] = x]
  ELSE [i \in 1..k |-> IF i <= Len(bs) THEN bs[i] ELSE IF i = k THEN x ELSE Hole]

\* a merge that lets the id of the partial data win: { ...this.books[index], ...book }
MergeKeepsPartialId(old, partial, id) ==
  [id |-> IF partial.id # Undefined THEN partial.id ELSE old.id,
   name |-> IF partial.hasName THEN partial.name ELSE old.name]

\* { ...this.books[index], ...book, id }
Merge(old, partial, id) ==
  LET spread == [id |-> IF partial.id # Undefined THEN partial.id ELSE old.id,
                 name |-> IF partial.hasName THEN partial.name ELSE old.name]
  IN [spread EXCEPT !.id = id]

Partials ==
  { [hasName |-> TRUE, name |-> "B", id |-> Undefined],
    [hasName |-> FALSE, name |-> "", id |-> 1] }

\* ------------------------------------------------------------------- state
VARIABLES
  books,           \* this.books: the Local Collection
  pendingChanges,  \* this.pendingChanges: the Pending Change queue
  isOnline,        \* this.isOnline: the Reachability Flag
  now,             \* the value Date.now() returned last
  apiUp,           \* environment: the remote endpoint answers requests
  remote,          \* environment: the collection held by the remote endpoint
  probe,           \* checkApiStatus(): "inflight" until GET /health settles
  sync,            \* syncPendingChanges(): position of the replay loop
  syncLog,         \* history: remote calls settled by the replay pass
  inflight,        \* caller operations suspended at their await
  last,            \* history: the most recent store event and its result
  nOps,            \* number of caller operations issued so far
  other            \* the fields of a second store instance (authorService)

vars == <<books, pendingChanges, isOnline, now, apiUp, remote, probe, sync,
          syncLog, inflight, last, nOps, other>>

Task(op, id, index, ent, serial, imm) ==
  [op |-> op, id |-> id, index |-> index, ent |-> ent, serial |-> serial, imm |-> imm]

\* PendingChange; uid is the identity of the JavaScript object
Change(type, data, id, t, uid) ==
  [type |-> type, data |-> data, id |-> id, timestamp |-> t, uid |-> uid]

\* an enqueue at the head of the queue
Unshift(q, change) == <<change>> \o q

\* this.pendingChanges.push(change)
Push(q, change) == Append(q, change)

Event(op, phase, id, path, retKind, ent, bool, list, imm) ==
  [op |-> op, phase |-> phase, id |-> id, path |-> path, retKind |-> retKind,
   ent |-> ent, bool |-> bool, list |-> list, imm |-> imm]

NoEvent == Event("none", "none", Undefined, "none", "none", NoEntity, FALSE, <<>>, FALSE)

IdleSync == [pc |-> "idle", arr |-> <<>>, i |-> 0, aliased |-> FALSE, enq |-> FALSE, start |-> <<>>]

\* a store instance that is not the one the actions operate on: its fields,
\* its endpoint's collection and its history
Store(name, bs, pend, online, rem, pr, sy, log, infl, ev) ==
  [name |-> name, books |-> bs, pendingChanges |-> pend, isOnline |-> online,
   remote |-> rem, probe |-> pr, sync |-> sy, syncLog |-> log, inflight |-> infl,
   last |-> ev]

\* authorsData: the seed of the second store
AuthorSeed == << [id |-> 1, name |-> "A"] >>

\* authorService = new AuthorService()
AuthorStore ==
  Store("authors", AuthorSeed, <<>>, TRUE, AuthorSeed, "inflight", IdleSync, <<>>, <<>>, NoEvent)

InitStartsOffline ==
  /\ other = AuthorStore
  /\ books \in Seeds
  /\ pendingChanges = <<>>
  /\ isOnline = FALSE
  /\ now = 0
  /\ apiUp \in BOOLEAN
  /\ remote = books
  /\ probe = "inflight"
  /\ sync = IdleSync
  /\ syncLog = <<>>
  /\ inflight = <<>>
  /\ last = NoEvent
  /\ nOps = 0

Init ==
  /\ other = AuthorStore
  /\ books \in Seeds
  /\ pendingChanges = <<>>
  /\ isOnline = TRUE
  /\ now = 0
  /\ apiUp \in BOOLEAN
  /\ remote = books
  /\ probe = "inflight"
  /\ sync = IdleSync
  /\ syncLog = <<>>
  /\ inflight = <<>>
  /\ last = NoEvent
  /\ nOps = 0

\* Date.now(): the clock does not go back, and may not have advanced
Stamps == {t \in {now, now + 1} : t <= MaxTime}

RemoveAt(s, k) == [i \in 1..(Len(s) - 1) |-> IF i < k THEN s[i] ELSE s[i + 1]]

\* this.pendingChanges.push(...) as seen by a replay pass in progress
NoteEnqueue == IF sync.pc = "await" THEN [sync EXCEPT !.enq = TRUE] ELSE sync

\* ---------------------------------------------------------- remote endpoint
RemoteIndex(id) == IF \E i \in 1..Len(remote) : remote[i].id = id
                   THEN CHOOSE i \in 1..Len(remote) : remote[i].id = id
                   ELSE 0

RemoteHas(id) == RemoteIndex(id) # 0

RemoteNextId == Plus1(MaxFrom(IdsOf(remote), 1, 0))

\* POST: the endpoint assigns the id; it may keep a usable id sent in the body
PostIds(body) == {RemoteNextId} \cup
  (IF body.id > 0 /\ ~RemoteHas(body.id) THEN {body.id} ELSE {})

\* PUT: the endpoint answers with its own representation of the record
PutReps(id, body) == { [id |-> id, name |-> n] : n \in {body.name, ServerName} }

\* ids a caller passes to getById, update and delete
IdArgs ==
  ((1..MaxIdArg) \cup {books[i].id : i \in 1..Len(books)}
                 \cup {remote[i].id : i \in 1..Len(remote)}) \ {Undefined}

\* a lookup that finds nothing
FindEventFindsNothing(op, path, id, imm) ==
  Event(op, "return", id, path, "undefined", NoEntity, FALSE, <<>>, imm)

\* this.books.find(b => b.id === id)
FindEvent(op, path, id, imm) ==
  LET k == FindIndex(books, id) IN
  IF k = ThrowIndex THEN Event(op, "return", id, path, "throw", NoEntity, FALSE, <<>>, imm)
  ELSE IF k = 0 THEN Event(op, "return", id, path, "undefined", NoEntity, FALSE, <<>>, imm)
  ELSE Event(op, "return", id, path, "entity", books[k], FALSE, <<>>, imm)

\* -------------------------------------------------------------------- add
\* addBook up to its await (Online) or to its return (Offline)
addBookSharedQueue(n) ==
  /\ nOps' = nOps + 1
  /\ LET newBook == [id |-> NextId(books), name |-> n] IN
     IF isOnline
     THEN /\ Len(inflight) < MaxInFlight
          /\ inflight' = Append(inflight, Task("add", newBook.id, 0, newBook, nOps + 1, FALSE))
          /\ last' = Event("add", "call", newBook.id, "online", "none", newBook, FALSE, <<>>, FALSE)
          /\ UNCHANGED <<books, pendingChanges, isOnline, now, apiUp, remote, probe, sync, syncLog, other>>
     ELSE /\ \E t \in Stamps :
               /\ now' = t
               /\ pendingChanges' = Push(pendingChanges, Change("add", newBook, Undefined, t, nOps + 1))
               /\ other' = [other EXCEPT !.pendingChanges = Push(@, Change("add", newBook, Undefined, t, nOps + 1))]
          /\ sync' = NoteEnqueue
          /\ books' = Append(books, newBook)
          /\ last' = Event("add", "return", newBook.id, "offline", "entity", newBook, FALSE, <<>>, FALSE)
          /\ UNCHANGED <<isOnline, apiUp, remote, probe, syncLog, inflight>>

addBook(n) ==
  /\ UNCHANGED other
  /\ nOps' = nOps + 1
  /\ LET newBook == [id |-> NextId(books), name |-> n] IN
     IF isOnline
     THEN /\ Len(inflight) < MaxInFlight
          /\ inflight' = Append(inflight, Task("add", newBook.id, 0, newBook, nOps + 1, FALSE))
          /\ last' = Event("add", "call", newBook.id, "online", "none", newBook, FALSE, <<>>, FALSE)
          /\ UNCHANGED <<books, pendingChanges, isOnline, now, apiUp, remote, probe, sync, syncLog>>
     ELSE /\ \E t \in Stamps :
               /\ now' = t
               /\ pendingChanges' = Push(pendingChanges, Change("add", newBook, Undefined, t, nOps + 1))
          /\ sync' = NoteEnqueue
          /\ books' = Append(books, newBook)
          /\ last' = Event("add", "return", newBook.id, "offline", "entity", newBook, FALSE, <<>>, FALSE)
          /\ UNCHANGED <<isOnline, apiUp, remote, probe, syncLog, inflight>>

addBookResumeSharedFlag(k) ==
  /\ k \in 1..Len(inflight)
  /\ inflight[k].op = "add"
  /\ inflight' = RemoveAt(inflight, k)
  /\ LET newBook == inflight[k].ent IN
     IF apiUp
     THEN /\ \E rid \in PostIds(newBook) :
               LET created == [id |-> rid, name |-> newBook.name] IN
               /\ remote' = Append(remote, created)
               /\ last' = Event("add", "return", newBook.id, "success", "entity", created, FALSE, <<>>, FALSE)
          /\ UNCHANGED <<books, pendingChanges, isOnline, now, apiUp, probe, sync, syncLog, nOps, other>>
     ELSE /\ isOnline' = FALSE
          /\ other' = [other EXCEPT !.isOnline = FALSE]
          /\ \E t \in Stamps :
               /\ now' = t
               /\ pendingChanges' = Push(pendingChanges, Change("add", newBook, Undefined, t, inflight[k].serial))
          /\ sync' = NoteEnqueue
          /\ books' = Append(books, newBook)
          /\ last' = Event("add", "return", newBook.id, "failure", "entity", newBook, FALSE, <<>>, FALSE)
          /\ UNCHANGED <<apiUp, remote, probe, syncLog, nOps>>

\* addBook after api.post settles
addBookResume(k) ==
  /\ UNCHANGED other
  /\ k \in 1..Len(inflight)
  /\ inflight[k].op = "add"
  /\ inflight' = RemoveAt(inflight, k)
  /\ LET newBook == inflight[k].ent IN
     IF apiUp
     THEN /\ \E rid \in PostIds(newBook) :
               LET created == [id |-> rid, name |-> newBook.name] IN
               /\ remote' = Append(remote, created)
               /\ last' = Event("add", "return", newBook.id, "success", "entity", created, FALSE, <<>>, FALSE)
          /\ UNCHANGED <<books, pendingChanges, isOnline, now, apiUp, probe, sync, syncLog, nOps>>
     ELSE /\ isOnline' = FALSE
          /\ \E t \in Stamps :
               /\ now' = t
               /\ pendingChanges' = Push(pendingChanges, Change("add", newBook, Undefined, t, inflight[k].serial))
          /\ sync' = NoteEnqueue
          /\ books' = Append(books, newBook)
          /\ last' = Event("add", "return", newBook.id, "failure", "entity", newBook, FALSE, <<>>, FALSE)
          /\ UNCHANGED <<apiUp, remote, probe, syncLog, nOps>>

\* ----------------------------------------------------------------- update
updateBook(id, partial) ==
  /\ UNCHANGED other
  /\ nOps' = nOps + 1
  /\ LET index == FindIndex(books, id) IN
     IF index = ThrowIndex
     THEN /\ last' = Event("update", "return", id, "throw", "throw", NoEntity, FALSE, <<>>, FALSE)
          /\ UNCHANGED <<books, pendingChanges, isOnline, now, apiUp, remote, probe, sync, syncLog, inflight>>
     ELSE IF index = 0
     THEN /\ last' = Event("update", "return", id, "miss", "undefined", NoEntity, FALSE, <<>>, FALSE)
          /\ UNCHANGED <<books, pendingChanges, isOnline, now, apiUp, remote, probe, sync, syncLog, inflight>>
     ELSE LET updatedBook == Merge(books[index], partial, id) IN
          IF isOnline
          THEN /\ Len(inflight) < MaxInFlight
               /\ inflight' = Append(inflight, Task("update", id, index, updatedBook, nOps + 1, FALSE))
               /\ last' = Event("update", "call", id, "online", "none", updatedBook, FALSE, <<>>, FALSE)
               /\ UNCHANGED <<books, pendingChanges, isOnline, now, apiUp, remote, probe, sync, syncLog>>
          ELSE /\ \E t \in Stamps :
                    /\ now' = t
                    /\ pendingChanges' = Push(pendingChanges, Change("update", updatedBook, id, t, nOps + 1))
               /\ sync' = NoteEnqueue
               /\ books' = SetAt(books, index, updatedBook)
               /\ last' = Event("update", "return", id, "offline", "entity", updatedBook, FALSE, <<>>, FALSE)
               /\ UNCHANGED <<isOnline, apiUp, remote, probe, syncLog, inflight>>

\* updateBook after api.put settles
updateBookResume(k) ==
  /\ UNCHANGED other
  /\ k \in 1..Len(inflight)
  /\ inflight[k].op = "update"
  /\ inflight' = RemoveAt(inflight, k)
  /\ LET id == inflight[k].id
         index == inflight[k].index
         updatedBook == inflight[k].ent
     IN
     IF apiUp /\ RemoteHas(id)
     THEN /\ \E data \in PutReps(id, updatedBook) :
               /\ remote' = [remote EXCEPT ![RemoteIndex(id)] = data]
               /\ books' = SetAt(books, index, data)
               /\ last' = Event("update", "return", id, "success", "entity", data, FALSE, <<>>, FALSE)
          /\ UNCHANGED <<pendingChanges, isOnline, now, apiUp, probe, sync, syncLog, nOps>>
     ELSE /\ isOnline' = FALSE
          /\ \E t \in Stamps :
               /\ now' = t
               /\ pendingChanges' = Push(pendingChanges, Change("update", updatedBook, id, t, inflight[k].serial))
          /\ sync' = NoteEnqueue
          /\ books' = SetAt(books, index, updatedBook)
          /\ last' = Event("update", "return", id, "failure", "entity", updatedBook, FALSE, <<>>, FALSE)
          /\ UNCHANGED <<apiUp, remote, probe, syncLog, nOps>>

\* ----------------------------------------------------------------- delete
\* a delete that removes the entity Offline without recording the change
deleteBookForgetsChange(id) ==
  /\ UNCHANGED other
  /\ nOps' = nOps + 1
  /\ LET index == FindIndex(books, id) IN
     IF index = ThrowIndex
     THEN /\ last' = Event("delete", "return", id, "throw", "throw", NoEntity, FALSE, <<>>, FALSE)
          /\ UNCHANGED <<books, pendingChanges, isOnline, now, apiUp, remote, probe, sync, syncLog, inflight>>
     ELSE IF index = 0
     THEN /\ last' = Event("delete", "return", id, "miss", "bool", NoEntity, FALSE, <<>>, FALSE)
          /\ UNCHANGED <<books, pendingChanges, isOnline, now, apiUp, remote, probe, sync, syncLog, inflight>>
     ELSE IF isOnline
          THEN /\ Len(inflight) < MaxInFlight
               /\ inflight' = Append(inflight, Task("delete", id, index, EmptyData, nOps + 1, FALSE))
               /\ last' = Event("delete", "call", id, "online", "none", NoEntity, FALSE, <<>>, FALSE)
               /\ UNCHANGED <<books, pendingChanges, isOnline, now, apiUp, remote, probe, sync, syncLog>>
          ELSE /\ books' = Splice(books, index)
               /\ last' = Event("delete", "return", id, "offline", "bool", NoEntity, TRUE, <<>>, FALSE)
               /\ UNCHANGED <<pendingChanges, sync, now, isOnline, apiUp, remote, probe, syncLog, inflight>>

deleteBook(id) ==
  /\ UNCHANGED other
  /\ nOps' = nOps + 1
  /\ LET index == FindIndex(books, id) IN
     IF index = ThrowIndex
     THEN /\ last' = Event("delete", "return", id, "throw", "throw", NoEntity, FALSE, <<>>, FALSE)
          /\ UNCHANGED <<books, pendingChanges, isOnline, now, apiUp, remote, probe, sync, syncLog, inflight>>
     ELSE IF index = 0
     THEN /\ last' = Event("delete", "return", id, "miss", "bool", NoEntity, FALSE, <<>>, FALSE)
          /\ UNCHANGED <<books, pendingChanges, isOnline, now, apiUp, remote, probe, sync, syncLog, inflight>>
     ELSE IF isOnline
          THEN /\ Len(inflight) < MaxInFlight
               /\ inflight' = Append(inflight, Task("delete", id, index, EmptyData, nOps + 1, FALSE))
               /\ last' = Event("delete", "call", id, "online", "none", NoEntity, FALSE, <<>>, FALSE)
               /\ UNCHANGED <<books, pendingChanges, isOnline, now, apiUp, remote, probe, sync, syncLog>>
          ELSE /\ \E t \in Stamps :
                    /\ now' = t
                    /\ pendingChanges' = Push(pendingChanges, Change("delete", EmptyData, id, t, nOps + 1))
               /\ sync' = NoteEnqueue
               /\ books' = Splice(books, index)
               /\ last' = Event("delete", "return", id, "offline", "bool", NoEntity, TRUE, <<>>, FALSE)
               /\ UNCHANGED <<isOnline, apiUp, remote, probe, syncLog, inflight>>

\* a delete that records a Pending Change even when its remote call succeeded
deleteBookResumeAlwaysQueues(k) ==
  /\ UNCHANGED other
  /\ k \in 1..Len(inflight)
  /\ inflight[k].op = "delete"
  /\ inflight' = RemoveAt(inflight, k)
  /\ LET id == inflight[k].id
         index == inflight[k].index
     IN
     /\ IF apiUp /\ RemoteHas(id)
        THEN /\ remote' = RemoveAt(remote, RemoteIndex(id))
             /\ last' = Event("delete", "return", id, "success", "bool", NoEntity, TRUE, <<>>, FALSE)
             /\ UNCHANGED isOnline
        ELSE /\ isOnline' = FALSE
             /\ last' = Event("delete", "return", id, "failure", "bool", NoEntity, TRUE, <<>>, FALSE)
             /\ UNCHANGED remote
     /\ \E t \in Stamps :
          /\ now' = t
          /\ pendingChanges' = Push(pendingChanges, Change("delete", EmptyData, id, t, inflight[k].serial))
     /\ sync' = NoteEnqueue
     /\ books' = Splice(books, index)
  /\ UNCHANGED <<apiUp, probe, syncLog, nOps>>

\* deleteBook after api.delete settles
deleteBookResume(k) ==
  /\ UNCHANGED other
  /\ k \in 1..Len(inflight)
  /\ inflight[k].op = "delete"
  /\ inflight' = RemoveAt(inflight, k)
  /\ LET id == inflight[k].id
         index == inflight[k].index
     IN
     IF apiUp /\ RemoteHas(id)
     THEN /\ remote' = RemoveAt(remote, RemoteIndex(id))
          /\ books' = Splice(books, index)
          /\ last' = Event("delete", "return", id, "success", "bool", NoEntity, TRUE, <<>>, FALSE)
          /\ UNCHANGED <<pendingChanges, isOnline, now, apiUp, probe, sync, syncLog, nOps>>
     ELSE /\ isOnline' = FALSE
          /\ \E t \in Stamps :
               /\ now' = t
               /\ pendingChanges' = Push(pendingChanges, Change("delete", EmptyData, id, t, inflight[k].serial))
          /\ sync' = NoteEnqueue
          /\ books' = Splice(books, index)
          /\ last' = Event("delete", "return", id, "failure", "bool", NoEntity, TRUE, <<>>, FALSE)
          /\ UNCHANGED <<apiUp, remote, probe, syncLog, nOps>>

\* ------------------------------------------------------------------- reads
\* getAllBooks up to its await (Online) or to its return (Offline)
getAllBooks ==
  /\ UNCHANGED other
  /\ nOps' = nOps + 1
  /\ IF isOnline
     THEN /\ Len(inflight) < MaxInFlight
          /\ inflight' = Append(inflight, Task("getAll", Undefined, 0, NoEntity, nOps + 1, FALSE))
          /\ last' = Event("getAll", "call", Undefined, "online", "none", NoEntity, FALSE, <<>>, FALSE)
     ELSE /\ last' = Event("getAll", "return", Undefined, "offline", "list", NoEntity, FALSE, books, FALSE)
          /\ UNCHANGED inflight
  /\ UNCHANGED <<books, pendingChanges, isOnline, now, apiUp, remote, probe, sync, syncLog>>

\* a list that adopts the fetched result as the Local Collection
getAllBooksResumeAdopts(k) ==
  /\ UNCHANGED other
  /\ k \in 1..Len(inflight)
  /\ inflight[k].op = "getAll"
  /\ inflight' = RemoveAt(inflight, k)
  /\ IF apiUp
     THEN /\ last' = Event("getAll", "return", Undefined, "success", "list", NoEntity, FALSE, remote, FALSE)
          /\ books' = remote
          /\ UNCHANGED isOnline
     ELSE /\ isOnline' = FALSE
          /\ last' = Event("getAll", "return", Undefined, "failure", "list", NoEntity, FALSE, books, FALSE)
          /\ UNCHANGED books
  /\ UNCHANGED <<pendingChanges, now, apiUp, remote, probe, sync, syncLog, nOps>>

\* getAllBooks after api.get('/books') settles
getAllBooksResume(k) ==
  /\ UNCHANGED other
  /\ k \in 1..Len(inflight)
  /\ inflight[k].op = "getAll"
  /\ inflight' = RemoveAt(inflight, k)
  /\ IF apiUp
     THEN /\ last' = Event("getAll", "return", Undefined, "success", "list", NoEntity, FALSE, remote, FALSE)
          /\ UNCHANGED isOnline
     ELSE /\ isOnline' = FALSE
          /\ last' = Event("getAll", "return", Undefined, "failure", "list", NoEntity, FALSE, books, FALSE)
  /\ UNCHANGED <<books, pendingChanges, now, apiUp, remote, probe, sync, syncLog, nOps>>

\* the event before this one is the return of a delete of the same id
JustDeleted(id) ==
  last.op = "delete" /\ last.phase = "return" /\ last.retKind = "bool" /\ last.id = id

\* getBookById up to its await (Online) or to its return (Offline)
getBookById(id) ==
  /\ UNCHANGED other
  /\ nOps' = nOps + 1
  /\ IF isOnline
     THEN /\ Len(inflight) < MaxInFlight
          /\ inflight' = Append(inflight, Task("getById", id, 0, NoEntity, nOps + 1, JustDeleted(id)))
          /\ last' = Event("getById", "call", id, "online", "none", NoEntity, FALSE, <<>>, JustDeleted(id))
     ELSE /\ last' = FindEvent("getById", "offline", id, JustDeleted(id))
          /\ UNCHANGED inflight
  /\ UNCHANGED <<books, pendingChanges, isOnline, now, apiUp, remote, probe, sync, syncLog>>

\* a lookup whose successful fetch marks the store Online again
getBookByIdResumeRevives(k) ==
  /\ UNCHANGED other
  /\ k \in 1..Len(inflight)
  /\ inflight[k].op = "getById"
  /\ inflight' = RemoveAt(inflight, k)
  /\ LET id == inflight[k].id
         imm == inflight[k].imm /\ last.op = "getById" /\ last.phase = "call" /\ last.id = id
     IN
     IF apiUp /\ RemoteHas(id)
     THEN /\ last' = Event("getById", "return", id, "success", "entity", remote[RemoteIndex(id)], FALSE, <<>>, imm)
          /\ isOnline' = TRUE
     ELSE /\ isOnline' = FALSE
          /\ last' = FindEvent("getById", "failure", id, imm)
  /\ UNCHANGED <<books, pendingChanges, now, apiUp, remote, probe, sync, syncLog, nOps>>

\* getBookById after api.get(`/books/${id}`) settles
getBookByIdResume(k) ==
  /\ UNCHANGED other
  /\ k \in 1..Len(inflight)
  /\ inflight[k].op = "getById"
  /\ inflight' = RemoveAt(inflight, k)
  /\ LET id == inflight[k].id
         \* nothing happened in the store since this call was issued
         imm == inflight[k].imm /\ last.op = "getById" /\ last.phase = "call" /\ last.id = id
     IN
     IF apiUp /\ RemoteHas(id)
     THEN /\ last' = Event("getById", "return", id, "success", "entity", remote[RemoteIndex(id)], FALSE, <<>>, imm)
          /\ UNCHANGED isOnline
     ELSE /\ isOnline' = FALSE
          /\ last' = FindEvent("getById", "failure", id, imm)
  /\ UNCHANGED <<books, pendingChanges, now, apiUp, remote, probe, sync, syncLog, nOps>>

\* values a caller filters by (the author of a book, the country of an author)
FilterArgs == {"A", "B"}

\* a filter that ignores its predicate
FilterKeepsAll(bs, a) == SelectSeq(bs, LAMBDA b : b # Hole)

\* this.books.filter(book => book.author.id === authorId): filter skips the
\* empty slots of a sparse array and keeps the order of the array
FilterBy(bs, a) == SelectSeq(bs, LAMBDA b : b # Hole /\ b.name = a)

\* getBooksByAuthor, getBooksByPublisher, getBooksByCategory (synchronous);
\* the event records the value asked for in ent.name
getBooksByAuthor(a) ==
  /\ UNCHANGED other
  /\ nOps' = nOps + 1
  /\ last' = Event("filter", "return", Undefined, "none", "list",
                   [id |-> Undefined, name |-> a], FALSE, FilterBy(books, a), FALSE)
  /\ UNCHANGED <<books, pendingChanges, isOnline, now, apiUp, remote, probe, sync, syncLog, inflight>>

\* ------------------------------------------------------------ probe, replay
\* a filter that keeps what it should drop (=== for !==)
FilterKeepsStamp(q, t) == SelectSeq(q, LAMBDA pc : pc.timestamp = t)

\* pendingChanges.filter(pc => pc.timestamp !== change.timestamp)
FilterOut(q, t) == SelectSeq(q, LAMBDA pc : pc.timestamp # t)

\* the switch of the replay loop awaits a remote call for this change
NeedsCall(change) == change.type = "add" \/ Truthy(change.id)

\* The replay loop from the top of iteration i (1-based) to its next await or
\* to its end.  arr is the array object the for-of iterates; while aliased it
\* is the very array this.pendingChanges refers to, so pushes show up in it.
RECURSIVE SyncRun(_, _, _, _, _, _)
SyncRun(arr, i, pend, aliased, enq, start) ==
  LET iter == IF aliased THEN pend ELSE arr IN
  IF i > Len(iter)
  THEN [s |-> [pc |-> "done", arr |-> <<>>, i |-> i, aliased |-> FALSE, enq |-> enq, start |-> start],
        pend |-> pend]
  ELSE IF NeedsCall(iter[i])
  THEN [s |-> [pc |-> "await", arr |-> IF aliased THEN <<>> ELSE arr, i |-> i,
               aliased |-> aliased, enq |-> enq, start |-> start],
        pend |-> pend]
  ELSE SyncRun(iter, i + 1, FilterOut(pend, iter[i].timestamp), FALSE, enq, start)

\* a probe whose failure discards the queued changes
checkApiStatusResumeDropsQueue ==
  /\ UNCHANGED other
  /\ probe = "inflight"
  /\ probe' = "done"
  /\ IF apiUp
     THEN /\ isOnline' = TRUE
          /\ IF pendingChanges = <<>>
             THEN UNCHANGED <<sync, pendingChanges>>
             ELSE LET r == SyncRun(<<>>, 1, pendingChanges, TRUE, FALSE, pendingChanges) IN
                  /\ sync' = r.s
                  /\ pendingChanges' = r.pend
          /\ last' = Event("probe", "return", Undefined, "success", "none", NoEntity, FALSE, <<>>, FALSE)
     ELSE /\ isOnline' = FALSE
          /\ last' = Event("probe", "return", Undefined, "failure", "none", NoEntity, FALSE, <<>>, FALSE)
          /\ pendingChanges' = <<>>
          /\ UNCHANGED sync
  /\ UNCHANGED <<books, now, apiUp, remote, syncLog, inflight, nOps>>

\* checkApiStatus after api.get('/health') settles; on success it calls
\* syncPendingChanges, which runs to its first await
checkApiStatusResume ==
  /\ UNCHANGED other
  /\ probe = "inflight"
  /\ probe' = "done"
  /\ IF apiUp
     THEN /\ isOnline' = TRUE
          /\ IF pendingChanges = <<>>
             THEN UNCHANGED <<sync, pendingChanges>>
             ELSE LET r == SyncRun(<<>>, 1, pendingChanges, TRUE, FALSE, pendingChanges) IN
                  /\ sync' = r.s
                  /\ pendingChanges' = r.pend
          /\ last' = Event("probe", "return", Undefined, "success", "none", NoEntity, FALSE, <<>>, FALSE)
     ELSE /\ isOnline' = FALSE
          /\ last' = Event("probe", "return", Undefined, "failure", "none", NoEntity, FALSE, <<>>, FALSE)
          /\ UNCHANGED <<sync, pendingChanges>>
  /\ UNCHANGED <<books, now, apiUp, remote, syncLog, inflight, nOps>>

\* the change whose remote call the replay pass awaits
SyncIter == IF sync.aliased THEN pendingChanges ELSE sync.arr

SyncChange == SyncIter[sync.i]

\* the remote call of a replayed change succeeds
ReplayOk(change) ==
  /\ apiUp
  /\ change.type \in {"update", "delete"} => RemoteHas(change.id)

\* the records the endpoint may answer a successful replay call with
ReplayResponses(change) ==
  CASE change.type = "add" -> { [id |-> rid, name |-> change.data.name] : rid \in PostIds(change.data) }
    [] change.type = "update" -> PutReps(change.id, change.data)
    [] change.type = "delete" -> {EmptyData}

\* the remote collection after a successful replay call answered with data
ReplayRemote(change, data) ==
  CASE change.type = "add" -> Append(remote, data)
    [] change.type = "update" -> [remote EXCEPT ![RemoteIndex(change.id)] = data]
    [] change.type = "delete" -> RemoveAt(remote, RemoteIndex(change.id))

\* a replay that writes the record answered for an Add over the local entity
syncPendingChangesResumeWritesBack ==
  /\ UNCHANGED other
  /\ sync.pc = "await"
  /\ LET change == SyncChange IN
     IF ReplayOk(change)
     THEN \E data \in ReplayResponses(change) :
            LET r == SyncRun(SyncIter, sync.i + 1, FilterOut(pendingChanges, change.timestamp),
                             FALSE, sync.enq, sync.start) IN
            /\ remote' = ReplayRemote(change, data)
            /\ sync' = r.s
            /\ pendingChanges' = r.pend
            /\ syncLog' = Append(syncLog, [uid |-> change.uid, ok |-> TRUE])
            /\ books' = IF change.type = "add"
                        THEN [i \in 1..Len(books) |->
                                IF books[i] # Hole /\ books[i].id = change.data.id THEN data ELSE books[i]]
                        ELSE books
     ELSE LET r == SyncRun(sync.arr, sync.i + 1, pendingChanges, sync.aliased, sync.enq, sync.start) IN
          /\ sync' = r.s
          /\ pendingChanges' = r.pend
          /\ syncLog' = Append(syncLog, [uid |-> change.uid, ok |-> FALSE])
          /\ UNCHANGED <<remote, books>>
  /\ last' = Event("sync", "return", Undefined, "none", "none", NoEntity, FALSE, <<>>, FALSE)
  /\ UNCHANGED <<isOnline, now, apiUp, probe, inflight, nOps>>

\* syncPendingChanges after the awaited call of iteration sync.i settles
syncPendingChangesResume ==
  /\ UNCHANGED other
  /\ sync.pc = "await"
  /\ LET change == SyncChange IN
     IF ReplayOk(change)
     THEN \E data \in ReplayResponses(change) :
            LET r == SyncRun(SyncIter, sync.i + 1, FilterOut(pendingChanges, change.timestamp),
                             FALSE, sync.enq, sync.start) IN
            /\ remote' = ReplayRemote(change, data)
            /\ sync' = r.s
            /\ pendingChanges' = r.pend
            /\ syncLog' = Append(syncLog, [uid |-> change.uid, ok |-> TRUE])
     ELSE LET r == SyncRun(sync.arr, sync.i + 1, pendingChanges, sync.aliased, sync.enq, sync.start) IN
          /\ sync' = r.s
          /\ pendingChanges' = r.pend
          /\ syncLog' = Append(syncLog, [uid |-> change.uid, ok |-> FALSE])
          /\ UNCHANGED remote
  /\ last' = Event("sync", "return", Undefined, "none", "none", NoEntity, FALSE, <<>>, FALSE)
  /\ UNCHANGED <<books, isOnline, now, apiUp, probe, inflight, nOps>>

\* -------------------------------------------------------------- environment
\* the remote endpoint becomes unreachable or reachable
ApiChange ==
  /\ UNCHANGED other
  /\ apiUp' = ~apiUp
  /\ UNCHANGED <<books, pendingChanges, isOnline, now, remote, probe, sync, syncLog, inflight, last, nOps>>

\* a caller issues one more operation
MayCall == nOps < MaxOps

\* The actions operate on one store instance; its copy (the same code over
\* its own fields) is operated by exchanging the two instances: the event
\* loop or the caller turns to the other store.
SwitchStore ==
  /\ other' = Store(IF other.name = "authors" THEN "books" ELSE "authors",
                    books, pendingChanges, isOnline, remote, probe, sync, syncLog,
                    inflight, last)
  /\ books' = other.books
  /\ pendingChanges' = other.pendingChanges
  /\ isOnline' = other.isOnline
  /\ remote' = other.remote
  /\ probe' = other.probe
  /\ sync' = other.sync
  /\ syncLog' = other.syncLog
  /\ inflight' = other.inflight
  /\ last' = other.last
  /\ UNCHANGED <<now, apiUp, nOps>>

Next ==
  \/ \E n \in Names : MayCall /\ addBook(n)
  \/ \E k \in 1..MaxInFlight : addBookResume(k)
  \/ \E id \in IdArgs, partial \in Partials : MayCall /\ updateBook(id, partial)
  \/ \E k \in 1..MaxInFlight : updateBookResume(k)
  \/ \E id \in IdArgs : MayCall /\ deleteBook(id)
  \/ \E k \in 1..MaxInFlight : deleteBookResume(k)
  \/ MayCall /\ getAllBooks
  \/ \E k \in 1..MaxInFlight : getAllBooksResume(k)
  \/ \E id \in IdArgs : MayCall /\ getBookById(id)
  \/ \E k \in 1..MaxInFlight : getBookByIdResume(k)
  \/ \E a \in FilterArgs : MayCall /\ getBooksByAuthor(a)
  \/ checkApiStatusResume
  \/ syncPendingChangesResume
  \/ ApiChange

Spec == Init /\ [][Next]_vars

TypeOK ==
  /\ isOnline \in BOOLEAN
  /\ apiUp \in BOOLEAN
  /\ now \in 0..MaxTime
  /\ nOps \in 0..MaxEditOps
  /\ Len(inflight) <= MaxInFlight
  /\ probe \in {"inflight", "done"}
  /\ sync.pc \in {"idle", "await", "done"}

\* every remote call eventually settles (the transport times out), and the
\* continuation of a settled call runs
FairSpec ==
  /\ Spec
  /\ WF_vars(checkApiStatusResume)
  /\ WF_vars(syncPendingChangesResume)
  /\ WF_vars(\E k \in 1..MaxInFlight :
        addBookResume(k) \/ updateBookResume(k) \/ deleteBookResume(k) \/ getAllBooksResume(k) \/ getBookByIdResume(k))

\* Behaviours in which the callers only edit and look up (update, delete,
\* getById), starting from the two-record seed, over MaxEditOps operations.
EditInit == Init /\ Len(books) = 2

MayEdit == nOps < MaxEditOps

EditNext ==
  \/ \E id \in IdArgs, partial \in Partials : MayEdit /\ partial.hasName /\ updateBook(id, partial)
  \/ \E k \in 1..MaxInFlight : updateBookResume(k)
  \/ \E id \in IdArgs : MayEdit /\ deleteBook(id)
  \/ \E k \in 1..MaxInFlight : deleteBookResume(k)
  \/ \E id \in IdArgs : MayEdit /\ getBookById(id)
  \/ \E k \in 1..MaxInFlight : getBookByIdResume(k)
  \/ checkApiStatusResume
  \/ syncPendingChangesResume

EditSpec == EditInit /\ [][EditNext]_vars

\* Two store instances: callers add and delete in either store, over
\* MaxPairOps operations in all.
PairInit == Init /\ Len(books) = 1

MayPair == nOps < MaxPairOps

PairNext ==
  \/ \E n \in Names : MayPair /\ addBook(n)
  \/ \E k \in 1..MaxInFlight : addBookResume(k)
  \/ \E id \in IdArgs : MayPair /\ deleteBook(id)
  \/ \E k \in 1..MaxInFlight : deleteBookResume(k)
  \/ checkApiStatusResume
  \/ syncPendingChangesResume
  \/ ApiChange
  \/ SwitchStore

PairSpec == PairInit /\ [][PairNext]_vars

\* A seed file whose first record has id 0; callers update and delete over
\* MaxZeroOps operations.
ZeroSeed == << [id |-> 0, name |-> "A"], [id |-> 1, name |-> "A"] >>

ZeroInit ==
  /\ other = AuthorStore
  /\ books = ZeroSeed
  /\ pendingChanges = <<>>
  /\ isOnline = TRUE
  /\ now = 0
  /\ apiUp \in BOOLEAN
  /\ remote = books
  /\ probe = "inflight"
  /\ sync = IdleSync
  /\ syncLog = <<>>
  /\ inflight = <<>>
  /\ last = NoEvent
  /\ nOps = 0

MayZero == nOps < MaxZeroOps

ZeroNext ==
  \/ \E id \in IdArgs, partial \in Partials : MayZero /\ partial.hasName /\ updateBook(id, partial)
  \/ \E k \in 1..MaxInFlight : updateBookResume(k)
  \/ \E id \in IdArgs : MayZero /\ deleteBook(id)
  \/ \E k \in 1..MaxInFlight : deleteBookResume(k)
  \/ checkApiStatusResume
  \/ syncPendingChangesResume
  \/ ApiChange

ZeroSpec == ZeroInit /\ [][ZeroNext]_vars

\* The store goes Offline by a failed read while its probe is pending, callers
\* then mutate it Offline over MaxConvergeOps operations, and the replay the
\* probe starts is answered by an endpoint that applies every call as sent.
MayConverge == nOps < MaxConvergeOps

OfflineBeforeReplay == ~isOnline /\ probe = "inflight"

\* the settled replay call succeeded and the endpoint stored what was sent
ReplayFaithful ==
  /\ ReplayOk(SyncChange)
  /\ remote' = ReplayRemote(SyncChange, IF SyncChange.type = "delete" THEN EmptyData ELSE SyncChange.data)

ConvergeNext ==
  \/ MayConverge /\ probe = "inflight" /\ getAllBooks
  \/ \E k \in 1..MaxInFlight : getAllBooksResume(k)
  \/ \E n \in Names : MayConverge /\ OfflineBeforeReplay /\ addBook(n)
  \/ \E id \in IdArgs, partial \in Partials : MayConverge /\ OfflineBeforeReplay /\ partial.hasName /\ updateBook(id, partial)
  \/ \E id \in IdArgs : MayConverge /\ OfflineBeforeReplay /\ deleteBook(id)
  \/ checkApiStatusResume
  \/ syncPendingChangesResume /\ ReplayFaithful
  \/ ApiChange

ConvergeSpec == Init /\ [][ConvergeNext]_vars

\* ------------------------------------------------------------ observations
Uids(q) == [i \in 1..Len(q) |-> q[i].uid]

AllOk(log) == \A i \in 1..Len(log) : log[i].ok

\* the replay pass has just ended: its last continuation is the latest event
PassEnded == sync.pc = "done" /\ last.op = "sync"

\* the ids of the entities of a collection are pairwise distinct
DistinctIds(bs) ==
  \A i, j \in 1..Len(bs) : (i # j /\ bs[i] # Hole /\ bs[j] # Hole) => bs[i].id # bs[j].id

\* position of the entry with this uid in q, 0 if there is none
UidIndex(q, u) == IF \E i \in 1..Len(q) : q[i].uid = u
                  THEN CHOOSE i \in 1..Len(q) : q[i].uid = u
                  ELSE 0

\* ------------------------------------------------------------------ claims

\* C1: once the store is Offline with a non-empty Pending Change queue and
\* the remote endpoint is reachable and stays reachable, the queue eventually
\* becomes empty (the store probes again, goes Online and replays).
C1_AutoSyncOnRecovery ==
  (~isOnline /\ pendingChanges # <<>>) ~> (~apiUp \/ pendingChanges = <<>>)

\* C2: a replay pass whose remote calls all succeed, with nothing enqueued
\* meanwhile, has issued exactly one call per entry of the queue it started
\* with, in enqueue order, and leaves the queue empty.
C2_ReplayFifoAndEmpties ==
  (PassEnded /\ AllOk(syncLog) /\ ~sync.enq) =>
     /\ Uids(syncLog) = Uids(sync.start)
     /\ pendingChanges = <<>>

C2_Witness ==
  /\ PassEnded /\ AllOk(syncLog) /\ ~sync.enq
  /\ Len(sync.start) = 3
  /\ Uids(syncLog) = Uids(sync.start)

\* C3: a failed replay call ends the pass: it is the last call of the pass,
\* and the failed entry and every entry after it are what the queue holds,
\* in their original order, when the pass ends.
C3_ReplayStopsOnFailure ==
  \A i \in 1..Len(syncLog) :
     ~syncLog[i].ok =>
        /\ i = Len(syncLog)
        /\ sync.pc = "done"
        /\ (PassEnded /\ ~sync.enq) =>
              Uids(pendingChanges) =
                Uids(SubSeq(sync.start, UidIndex(sync.start, syncLog[i].uid), Len(sync.start)))

\* C4: an entry leaves the queue only in the step in which the replay call
\* of that very entry succeeds.
C4_RemovedOnlyByOwnReplay ==
  [][\A e \in Range(pendingChanges) :
        e \notin Range(pendingChanges') =>
           syncLog' = Append(syncLog, [uid |-> e.uid, ok |-> TRUE])]_vars

\* C5: the ids of the Local Collection are pairwise distinct in every
\* reachable state.
C5_IdsUnique == DistinctIds(books)

\* this step is the return of an add (Offline at once, Online after the await)
AddReturns ==
  /\ last'.op = "add" /\ last'.phase = "return"
  /\ nOps' # nOps \/ inflight' # inflight

\* C6: every add, on each of its three paths, returns with the Local
\* Collection extended by exactly the new entity, at the end.
C6_AddAlwaysAppends ==
  [][AddReturns =>
        /\ Len(books') = Len(books) + 1
        /\ SubSeq(books', 1, Len(books)) = books
        /\ books'[Len(books')].id = last'.id]_vars

\* the largest of a non-empty set of numbers
MaxOf(S) == CHOOSE m \in S : \A x \in S : x <= m

IdSet(bs) == {bs[i].id : i \in 1..Len(bs)}

\* a collection of entities with ordinary numbers as ids
Plain(bs) == \A i \in 1..Len(bs) : bs[i] # Hole /\ bs[i].id \notin {NaN, NegInfinity}

\* the collection as it was just before the latest add appended to it
Front(bs) == SubSeq(bs, 1, Len(bs) - 1)

AddReturned == last.op = "add" /\ last.phase = "return"

ClaimedId(bs) == IF bs = <<>> THEN 1 ELSE MaxOf(IdSet(bs)) + 1

\* C8: add assigns max(ids) + 1 on a non-empty Local Collection and 1 on an
\* empty one.
C8_AddAssignsMaxPlusOne ==
  /\ (last.op = "add" /\ last.phase = "call") => last.id = ClaimedId(books)
  /\ (AddReturned /\ last.path = "offline") => last.id = ClaimedId(Front(books))

\* C9: an add made Offline on a collection with distinct ids leaves the ids
\* distinct and gives the new entity the previous maximum plus one.
C9_OfflineAddsIncrease ==
  [][(AddReturns /\ last'.path = "offline" /\ books # <<>> /\ DistinctIds(books)) =>
        /\ DistinctIds(books')
        /\ last'.id = MaxOf(IdSet(books)) + 1]_vars

\* C10: a getById(id) made right after delete(id) returned yields not-found.
C10_DeleteThenGetNotFound ==
  (last.op = "getById" /\ last.phase = "return" /\ last.imm) => last.retKind = "undefined"

\* the collection holds an entity with this id
Holds(bs, id) == \E i \in 1..Len(bs) : bs[i] # Hole /\ bs[i].id = id

\* this step is a caller issuing add, or update or delete of an id the Local
\* Collection holds, while the Reachability Flag is false
OfflineMutation ==
  /\ ~isOnline
  /\ nOps' = nOps + 1
  /\ last'.op \in {"add", "update", "delete"}
  /\ last'.op = "add" \/ Holds(books, last'.id)

\* the Local Collection after the mutation the event stands for
Applied(ev) ==
  CASE ev.op = "add" -> books' = Append(books, ev.ent)
    [] ev.op = "update" ->
         \E i \in 1..Len(books) : books[i].id = ev.id /\ books' = [books EXCEPT ![i] = ev.ent]
    [] ev.op = "delete" ->
         \E i \in 1..Len(books) :
            /\ books[i].id = ev.id
            /\ books' = [j \in 1..(Len(books) - 1) |-> IF j < i THEN books[j] ELSE books[j + 1]]

\* C11: with the Reachability Flag false, each add, and each update or delete
\* of an id the Local Collection holds, returns in the same step without a
\* remote call, with its mutation applied to the Local Collection and with
\* exactly one entry of its kind appended to the Pending Change queue.
C11_OfflineMutationLocal ==
  [][OfflineMutation =>
        /\ inflight' = inflight /\ remote' = remote
        /\ last'.phase = "return" /\ last'.retKind \in {"entity", "bool"}
        /\ Applied(last')
        /\ Len(pendingChanges') = Len(pendingChanges) + 1
        /\ SubSeq(pendingChanges', 1, Len(pendingChanges)) = pendingChanges
        /\ pendingChanges'[Len(pendingChanges')].type = last'.op]_vars

\* C12: no caller-facing operation finishes by throwing.
C12_NoOperationThrows == last.retKind # "throw"

\* this step is a caller invoking delete
DeleteCalled == nOps' = nOps + 1 /\ last'.op = "delete"

\* this step is the return of a delete (at once, or after the await)
DeleteReturns ==
  /\ last'.op = "delete" /\ last'.phase = "return"
  /\ nOps' # nOps \/ inflight' # inflight

\* what C13 says of one step of the store
DeleteResultStep ==
  /\ DeleteCalled =>
        /\ last'.retKind # "throw"
        /\ (last'.retKind = "bool" /\ ~last'.bool) <=> ~Holds(books, last'.id)
  /\ (DeleteReturns /\ nOps' = nOps) => (last'.retKind = "bool" /\ last'.bool)
  /\ (DeleteReturns /\ last'.retKind = "bool" /\ last'.bool) => ~Holds(books', last'.id)

\* C13: delete(id) returns false exactly when the Local Collection does not
\* hold id when the call is made; otherwise it returns true, and when it has
\* returned true the Local Collection holds no entity with that id.
C13_DeleteResult == [][DeleteResultStep]_vars

\* the first entity of the collection with this id
OldOf(bs, id) ==
  bs[CHOOSE i \in 1..Len(bs) : bs[i].id = id /\ \A j \in 1..(i - 1) : bs[j].id # id]

\* the existing record overridden by the partial data, with the id forced
MergedRecord(old, partial, id) ==
  [id |-> id, name |-> IF partial.hasName THEN partial.name ELSE old.name]

\* this step is a caller invoking update of an id the Local Collection holds
UpdateCalled == nOps' = nOps + 1 /\ last'.op = "update" /\ Holds(books, last'.id)

\* this step is the return of an update after its remote call settled
UpdateResumed == nOps' = nOps /\ inflight' # inflight /\ last'.op = "update"

\* the event of the step carries the merged record the call built
BuildsMerged ==
  \E partial \in Partials : last'.ent = MergedRecord(OldOf(books, last'.id), partial, last'.id)

\* the step returns the record an update suspended at its await had built
ReturnsBuilt ==
  \E k \in 1..Len(inflight) :
     /\ inflight[k].op = "update" /\ inflight' = RemoveAt(inflight, k)
     /\ last'.retKind = "entity" /\ last'.ent = inflight[k].ent

AbsentEdit ==
  /\ nOps' = nOps + 1
  /\ last'.op \in {"update", "delete"}
  /\ ~Holds(books, last'.id)

\* C15: update or delete of an id the Local Collection does not hold is a
\* no-op whatever the Reachability Flag: update returns undefined and delete
\* returns false, no remote call is issued, nothing is enqueued, and the Local
\* Collection and the flag are unchanged.
C15_AbsentIdNoOp ==
  [][AbsentEdit =>
        /\ last'.phase = "return"
        /\ last'.op = "update" => last'.retKind = "undefined"
        /\ last'.op = "delete" => (last'.retKind = "bool" /\ ~last'.bool)
        /\ UNCHANGED <<books, pendingChanges, isOnline, inflight, remote>>]_vars

\* this step is the return of a getById (at once, or after the await)
GetByIdReturns ==
  /\ last'.op = "getById" /\ last'.phase = "return"
  /\ nOps' # nOps \/ inflight' # inflight

\* C17: a getById(id) that returns while neither the remote endpoint nor the
\* Local Collection holds id returns undefined, Online and Offline alike.
C17_GetByIdNotFound ==
  [][(GetByIdReturns /\ ~Holds(books, last'.id) /\ ~RemoteHas(last'.id)) =>
        last'.retKind = "undefined"]_vars

\* this step is a caller invoking list
GetAllCalled == nOps' = nOps + 1 /\ last'.op = "getAll"

\* this step is the return of a list after its remote fetch settled
GetAllResumed == nOps' = nOps /\ inflight' # inflight /\ last'.op = "getAll"

\* what C16 says of one step of the store
ListStep ==
  /\ (GetAllCalled /\ isOnline) =>
        /\ last'.phase = "call" /\ Len(inflight') = Len(inflight) + 1
        /\ UNCHANGED <<books, isOnline>>
  /\ (GetAllResumed /\ apiUp) =>
        /\ last'.retKind = "list" /\ last'.list = remote
        /\ UNCHANGED <<books, isOnline>>
  /\ (GetAllResumed /\ ~apiUp) =>
        /\ ~isOnline'
        /\ last'.retKind = "list" /\ last'.list = books
        /\ UNCHANGED books
  /\ (GetAllCalled /\ ~isOnline) =>
        /\ last'.phase = "return" /\ last'.retKind = "list" /\ last'.list = books
        /\ UNCHANGED <<books, isOnline, inflight, remote>>

\* C16: list with the flag true fetches from the remote endpoint; a
\* successful fetch returns the remote result and leaves the Local Collection
\* unchanged, a failing fetch sets the flag false and returns the Local
\* Collection; with the flag false list returns the Local Collection and
\* issues no remote call.
C16_ListByPath == [][ListStep]_vars

C16_Witness ==
  /\ last.op = "getAll" /\ last.phase = "return" /\ last.path = "success"
  /\ last.list = remote /\ last.list # books

\* positions of the entities of bs that satisfy the predicate of a filter by a
Matching(bs, a) == {i \in 1..Len(bs) : bs[i] # Hole /\ bs[i].name = a}

\* the j-th smallest member of a set of positions
Nth(S, j) == CHOOSE i \in S : Cardinality({m \in S : m <= i}) = j

\* this step is a caller invoking a filter helper
FilterCalled == nOps' = nOps + 1 /\ last'.op = "filter"

\* C18: a filter helper returns exactly the entities of the Local Collection
\* that satisfy its predicate, in collection order, and leaves the Local
\* Collection, the Pending Change queue and the Reachability Flag unchanged
\* without issuing a remote call.
C18_FilterIsLocalScan ==
  [][FilterCalled =>
        LET S == Matching(books, last'.ent.name) IN
        /\ last'.phase = "return" /\ last'.retKind = "list"
        /\ Len(last'.list) = Cardinality(S)
        /\ \A j \in 1..Len(last'.list) : last'.list[j] = books[Nth(S, j)]
        /\ UNCHANGED <<books, pendingChanges, isOnline, inflight, remote>>]_vars

C18_Witness ==
  /\ last.op = "filter" /\ last.phase = "return"
  /\ Len(last.list) = 2 /\ Len(books) = 3
  /\ last.list[1].id # last.list[2].id

\* this step is a mutation performed in one piece with the flag false: the
\* caller gets the new or merged entity, or true
OfflineMutated ==
  /\ ~isOnline
  /\ nOps' = nOps + 1
  /\ last'.op \in {"add", "update", "delete"}
  /\ last'.retKind = "entity" \/ (last'.retKind = "bool" /\ last'.bool)

\* C19: while the store is Offline every mutation performed appends its own
\* entry at the tail of the Pending Change queue and leaves the earlier
\* entries as they were, in their order.
C19_OfflineQueueOrder ==
  [][OfflineMutated =>
        LET n == Len(pendingChanges) IN
        /\ Len(pendingChanges') = n + 1
        /\ SubSeq(pendingChanges', 1, n) = pendingChanges
        /\ pendingChanges'[n + 1].type = last'.op
        /\ last'.op = "add" => pendingChanges'[n + 1].data = last'.ent
        /\ last'.op \in {"update", "delete"} => pendingChanges'[n + 1].id = last'.id]_vars

\* seed [{id:1}], add then delete(1) Offline
C19_Witness ==
  /\ ~isOnline
  /\ last.op = "delete" /\ last.path = "offline" /\ last.bool
  /\ books = << [id |-> 2, name |-> "B"] >>
  /\ Len(pendingChanges) = 2
  /\ pendingChanges[1].type = "add" /\ pendingChanges[1].data.id = 2
  /\ pendingChanges[2].type = "delete" /\ pendingChanges[2].id = 1

\* this step settles a remote call of the store with a failure: a call of a
\* caller operation, the health probe, or a call of the replay pass
FailedCallSettles ==
  \/ inflight' # inflight /\ nOps' = nOps /\ last'.path = "failure"
  \/ probe' # probe /\ last'.path = "failure"
  \/ Len(syncLog') = Len(syncLog) + 1 /\ ~syncLog'[Len(syncLog')].ok

\* C20: when a remote call issued by the store fails (probe, list, getById,
\* add, update, delete, or a call of the replay pass), the Reachability Flag
\* is false afterwards.
C20_FailureSetsOffline == [][FailedCallSettles => ~isOnline']_vars

\* this step settles the health probe of the store
ProbeSettles == probe = "inflight" /\ probe' = "done"

\* what C21 says of one step of the store
FlagRiseStep ==
  /\ (~isOnline /\ isOnline') => (ProbeSettles /\ apiUp)
  /\ (ProbeSettles /\ apiUp) =>
        /\ isOnline'
        /\ pendingChanges # <<>> =>
              (sync.pc = "idle" /\ sync'.pc \in {"await", "done"} /\ sync'.start = pendingChanges)

\* C21: the Reachability Flag goes from false to true only in the step in
\* which the health probe succeeds; every successful probe sets the flag true
\* and starts the replay of the Pending Change queue; so no successful list,
\* getById, add, update or delete sets the flag true.
C21_OnlyProbeSetsOnline == [][FlagRiseStep]_vars

C21_Witness ==
  /\ last.op = "probe" /\ last.path = "success"
  /\ isOnline = TRUE
  /\ sync.pc = "await" /\ Len(sync.start) = 2

\* this step is the return of an add, update or delete whose remote call
\* failed
MutationFails ==
  /\ nOps' = nOps /\ inflight' # inflight
  /\ last'.op \in {"add", "update", "delete"}
  /\ last'.path = "failure"

\* what C22 says of one step of the store
FailedMutationStep ==
  MutationFails =>
    LET n == Len(pendingChanges) IN
    /\ ~isOnline'
    /\ Len(pendingChanges') = n + 1
    /\ SubSeq(pendingChanges', 1, n) = pendingChanges
    /\ pendingChanges'[n + 1].type = last'.op
    /\ last'.op = "add" =>
          (pendingChanges'[n + 1].data = last'.ent /\ last'.ent.id = last'.id)
    /\ last'.op = "update" =>
          (pendingChanges'[n + 1].data = last'.ent /\ pendingChanges'[n + 1].id = last'.id)
    /\ last'.op = "delete" => pendingChanges'[n + 1].id = last'.id
    /\ (last'.op = "add" \/ Holds(books, last'.id)) => Applied(last')

\* C22: an add, update or delete invoked with the flag true whose remote call
\* fails sets the flag false, appends exactly one Pending Change of its kind
\* (Add with the new entity and its local id, Update with the merged record
\* and the id, Delete with the id) and applies its mutation to the Local
\* Collection as the Offline path does.
C22_FailedMutationEnqueues == [][FailedMutationStep]_vars

\* this step puts a new entry into the Pending Change queue
Enqueues == \E i \in 1..Len(pendingChanges') : pendingChanges'[i] \notin Range(pendingChanges)

\* this step is the return of an add, update or delete whose remote call
\* succeeded
MutationSucceeds ==
  /\ nOps' = nOps /\ inflight' # inflight
  /\ last'.op \in {"add", "update", "delete"}
  /\ last'.path = "success"

\* C23: a Pending Change is created only by the return of an add, update or
\* delete that ran Offline or whose remote call failed; a mutation whose
\* remote call succeeds leaves the queue and the Reachability Flag unchanged;
\* list, getById, the probe, the replay and the filters enqueue nothing.
C23_EnqueueOnlyOfflineOrFailed ==
  [][(Enqueues =>
        /\ last'.op \in {"add", "update", "delete"} /\ last'.phase = "return"
        /\ last'.path \in {"offline", "failure"}
        /\ nOps' # nOps \/ inflight' # inflight)
     /\ (MutationSucceeds => UNCHANGED <<pendingChanges, isOnline>>)]_vars

C23_Witness ==
  /\ last.op = "delete" /\ last.phase = "return" /\ last.path = "success"
  /\ Len(pendingChanges) = 1 /\ pendingChanges[1].type = "add"
  /\ ~isOnline

\* this step is the return of an update whose remote call succeeded
UpdateSucceeds == MutationSucceeds /\ last'.op = "update"

\* C24: when an Online update of an id the Local Collection holds returns
\* after a successful remote call, the entry with that id is the record the
\* endpoint returned, every other entry is unchanged and nothing is enqueued.
C24_UpdateAdoptsRemote ==
  [][(UpdateSucceeds /\ Holds(books, last'.id)) =>
        /\ last'.ent = remote'[RemoteIndex(last'.id)]
        /\ \E i \in 1..Len(books) :
              books[i].id = last'.id /\ books' = [books EXCEPT ![i] = last'.ent]
        /\ \A i \in 1..Len(books') : books'[i].id = last'.id => books'[i] = last'.ent
        /\ UNCHANGED pendingChanges]_vars

\* C25: a failed health probe sets the Reachability Flag false, starts no
\* replay and leaves the Pending Change queue and the Local Collection
\* unchanged.
C25_FailedProbe ==
  [][(ProbeSettles /\ ~apiUp) =>
        /\ ~isOnline'
        /\ UNCHANGED <<sync, syncLog, remote, pendingChanges, books>>]_vars

C25_Witness ==
  /\ last.op = "probe" /\ last.path = "failure"
  /\ ~isOnline /\ sync.pc = "idle"
  /\ pendingChanges # <<>> /\ Len(books) = 3

\* this step settles a replay call with success
ReplaySucceeds == Len(syncLog') = Len(syncLog) + 1 /\ syncLog'[Len(syncLog')].ok

\* the endpoint's collection changes as the call matching the change does:
\* POST of the entity, PUT of the merged record on the id, DELETE of the id
MatchingCall(change) ==
  CASE change.type = "add" ->
         /\ Len(remote') = Len(remote) + 1
         /\ SubSeq(remote', 1, Len(remote)) = remote
         /\ remote'[Len(remote')].name = change.data.name
    [] change.type = "update" ->
         \E i \in 1..Len(remote) :
            /\ remote[i].id = change.id
            /\ \E rep \in PutReps(change.id, change.data) : remote' = [remote EXCEPT ![i] = rep]
    [] change.type = "delete" ->
         /\ Len(remote') = Len(remote) - 1
         /\ \A i \in 1..Len(remote') : remote'[i].id # change.id

\* every entry the pass started with has had its remote call settled
AllReplayed == \A i \in 1..Len(sync.start) : \E j \in 1..Len(syncLog) : syncLog[j].uid = sync.start[i].uid

BranchesOnFlag ==
  /\ nOps' = nOps + 1
  /\ last'.op \in {"add", "update", "delete", "getAll", "getById"}
  /\ last'.path \notin {"miss", "throw"}

\* this step settles a caller's remote call with failure
CallFails == nOps' = nOps /\ inflight' # inflight /\ last'.path = "failure"

\* the state construction leaves: probe pending, flag true, queue empty,
\* Local Collection equal to the seed
Constructed ==
  /\ probe = "inflight"
  /\ isOnline = TRUE
  /\ pendingChanges = <<>>
  /\ books \in Seeds
  /\ inflight = <<>>

\* a probe result only sets the flag and, on success, starts the replay of
\* the queue as it stands
LateProbeStep ==
  ProbeSettles =>
    /\ isOnline' = apiUp
    /\ UNCHANGED <<books, pendingChanges, inflight, remote>>
    /\ sync' # sync => (apiUp /\ sync'.start = pendingChanges)

EarlyCallStep == (probe = "inflight" /\ BranchesOnFlag) => last'.path = "online"

\* C27 as stated: construction does not wait for the probe (flag true, empty
\* queue, Local Collection equal to the seed), every operation invoked before
\* the probe resolves runs on the Online path, and a later probe result only
\* sets the flag and starts the replay, discarding nothing.
C27_EarlyCallsOnline == Constructed /\ [][EarlyCallStep /\ LateProbeStep]_vars

EarlyCallWhileTrueStep ==
  /\ (probe = "inflight" /\ BranchesOnFlag) => (last'.path = "online" <=> isOnline)
  /\ (probe' = "inflight" /\ isOnline /\ ~isOnline') => CallFails

\* C27 amended: as C27, but an operation invoked before the probe resolves
\* runs on the Online path only until a remote call of the store has failed:
\* while the probe is pending the flag leaves true only by such a failure,
\* and the operations invoked after it run Offline.
C27_NonBlockingConstruction == Constructed /\ [][EarlyCallWhileTrueStep /\ LateProbeStep]_vars

C27_Witness ==
  /\ last.op = "probe" /\ last.path = "success"
  /\ Len(pendingChanges) = 1 /\ Len(inflight) = 1
  /\ sync.pc = "await"
  /\ Len(books) = 3

\* a step of the store in focus leaves the other store's Local Collection
\* and queue alone; a change of focus moves both stores' fields unchanged
IsolatedStep ==
  /\ other'.name = other.name =>
       (other'.books = other.books /\ other'.pendingChanges = other.pendingChanges)
  /\ other'.name # other.name =>
       /\ other'.books = books /\ other'.pendingChanges = pendingChanges
       /\ books' = other.books /\ pendingChanges' = other.pendingChanges

\* C28: store instances are isolated: no operation, probe or replay of one
\* store changes the Local Collection or the Pending Change queue of another
\* store.
C28_StoresIsolated == [][IsolatedStep]_vars

C28_Witness ==
  /\ other.name = "books"
  /\ Len(other.pendingChanges) = 1 /\ Len(other.books) = 2
  /\ last.op = "add" /\ last.path = "failure"
  /\ Len(pendingChanges) = 1 /\ Len(books) = 2

\* this step settles with failure a remote call of a caller's operation or
\* of the probe, issued by the store in focus
RemoteCallFails ==
  /\ other'.name = other.name
  /\ last' # last
  /\ last'.phase = "return" /\ last'.path = "failure"

\* this step is a caller invoking a mutation that is performed on the store
\* in focus
MutationCalled == BranchesOnFlag /\ last'.op \in {"add", "update", "delete"}

\* C29 as stated: the Reachability Flag is process-wide: once a remote call
\* issued by any one store has failed every store is Offline, so a mutation
\* invoked on a store while another store's flag is false issues no remote
\* call and enqueues its change.
C29_FlagProcessWide ==
  [][/\ RemoteCallFails => (~isOnline' /\ ~other'.isOnline)
     /\ (MutationCalled /\ ~other.isOnline) =>
          (last'.path = "offline" /\ Len(pendingChanges') = Len(pendingChanges) + 1)]_vars

FlagPerStoreStep ==
  /\ RemoteCallFails => ~isOnline'
  /\ other'.name = other.name => other'.isOnline = other.isOnline
  /\ other'.name # other.name => (other'.isOnline = isOnline /\ isOnline' = other.isOnline)
  /\ MutationCalled =>
       IF isOnline
       THEN last'.path = "online" /\ pendingChanges' = pendingChanges
       ELSE last'.path = "offline" /\ Len(pendingChanges') = Len(pendingChanges) + 1

\* C29 amended: the Reachability Flag is kept per store: a failed remote call
\* of a caller's operation or of the probe sets the flag of the store that
\* issued it to false and leaves the flag of every other store as it was, and
\* a mutation issues no remote call and enqueues its change exactly when the
\* flag of its own store is false.
C29_FlagPerStore == [][FlagPerStoreStep]_vars

C29_Witness ==
  /\ other.name = "books" /\ ~other.isOnline /\ Len(other.pendingChanges) = 1
  /\ isOnline
  /\ last.op = "add" /\ last.phase = "call" /\ last.path = "online"

\* this step belongs to the replay pass: the probe settles (and may start
\* the pass) or a replay call settles
ReplayStep == ProbeSettles \/ Len(syncLog') > Len(syncLog)

\* this step settles the POST of an Online add with success
AddSucceeds == MutationSucceeds /\ last'.op = "add"

\* C30: the replay pass and a successful remote create never modify the
\* Local Collection: the id or representation the remote returns for an Add
\* (online or replayed) is not written back, so the local entity keeps its
\* locally assigned id.
C30_RemoteAddNotWrittenBack == [][(ReplayStep \/ AddSucceeds) => books' = books]_vars

C30_Witness ==
  /\ last.op = "sync" /\ Len(syncLog) = 1 /\ syncLog[1].ok
  /\ sync.start # <<>> /\ sync.start[1].type = "add" /\ sync.start[1].data.id = 2
  /\ Len(remote) = 3 /\ remote[3].id = 3
  /\ Len(books) = 2 /\ books[2].id = 2

\* this step is a delete acting on the store: invoked by a caller, or resumed
\* after its remote call settled
DeleteActs == last'.op = "delete" /\ (nOps' # nOps \/ inflight' # inflight)

\* every entity with another id than the one the step's operation was called
\* with is still in the Local Collection after the step
KeepsOthers ==
  \A i \in 1..Len(books) :
     (books[i] # Hole /\ books[i].id # last'.id) =>
        \E j \in 1..Len(books') : books'[j] = books[i]

\* C31: under every interleaving of concurrent Online operations on one
\* store, a delete(id) call removes from the Local Collection only the entity
\* whose id equals its argument, never an entity with a different id, even
\* when another delete or add completed while its remote call was in flight.
C31_DeleteRemovesOnlyItsId == [][DeleteActs => KeepsOthers]_vars

\* this step is an update acting on the store: invoked by a caller, or
\* resumed after its remote call settled
UpdateActs == last'.op = "update" /\ (nOps' # nOps \/ inflight' # inflight)

\* the step writes at most the entry whose id is the one the operation was
\* called with, and only if the Local Collection holds that id
WritesOnlyItsEntry ==
  /\ Len(books') = Len(books)
  /\ \A i \in 1..Len(books) :
       (books[i] = Hole \/ books[i].id # last'.id) => books'[i] = books[i]

\* C32: under every interleaving of concurrent Online operations on one
\* store, an update(id, ...) call writes only the Local Collection entry whose
\* id equals its argument: it never overwrites the entry of a different
\* entity, never re-inserts an entity deleted while its remote call was in
\* flight, and never changes the length of the Local Collection.
C32_UpdateWritesOnlyItsEntry == [][UpdateActs => WritesOnlyItsEntry]_vars

\* this step issues a remote call: a caller's operation starts its request,
\* or the replay pass starts the request of its next entry
IssuesCall ==
  \/ Len(inflight') > Len(inflight)
  \/ /\ sync'.pc = "await"
     /\ sync.pc # "await" \/ sync'.i # sync.i

\* C33: while the Reachability Flag is false the store issues no remote call
\* of any kind: in particular a replay pass already in progress issues no
\* further remote call once a concurrent operation's failure has set the flag
\* false.
C33_NoCallWhileOffline == [][IssuesCall => isOnline']_vars

\* this step settles a remote call of the replay pass
ReplaySettles == Len(syncLog') > Len(syncLog)

\* the change was in the queue when the pass started
InStart(change) == \E i \in 1..Len(sync.start) : sync.start[i].uid = change.uid

\* the entries enqueued since the pass started are all still queued, in
\* their order, and the queue keeps the order it had
KeepsNewEntries ==
  /\ SelectSeq(pendingChanges', LAMBDA c : ~InStart(c)) = SelectSeq(pendingChanges, LAMBDA c : ~InStart(c))
  /\ pendingChanges' = SelectSeq(pendingChanges, LAMBDA c : c \in Range(pendingChanges'))

\* the call that settled is the call of an entry the pass started with
ReplaysOnlyStart == \E i \in 1..Len(sync.start) : sync.start[i].uid = syncLog'[Len(syncLog')].uid

\* C34: a Pending Change enqueued by an operation that completes while a
\* replay pass is in progress is not lost: it is still in the queue when the
\* pass ends, behind every older entry that is still queued, and it is not
\* replayed by that pass.
C34_EnqueuedDuringReplayKept == [][ReplaySettles => (KeepsNewEntries /\ ReplaysOnlyStart)]_vars

\* the replay pass has ended and the call of every entry it started with
\* succeeded
ReplayedAll ==
  /\ sync.pc = "done"
  /\ \A i \in 1..Len(sync.start) :
       \E j \in 1..Len(syncLog) : syncLog[j].uid = sync.start[i].uid /\ syncLog[j].ok

\* C35: convergence after replay: if the Local Collection and the remote
\* collection hold the same entities, the store then performs any sequence of
\* add/update/delete while Offline, and a replay pass then succeeds on every
\* entry (the remote create keeping the id sent in the body, no other writer),
\* the remote collection again holds exactly the entities of the Local
\* Collection.
C35_ConvergesAfterReplay == ReplayedAll => (Range(remote) = Range(books) /\ Len(remote) = Len(books))

C35_Witness ==
  /\ ReplayedAll
  /\ Len(sync.start) = 3
  /\ {sync.start[i].type : i \in 1..3} = {"add", "update", "delete"}
  /\ pendingChanges = <<>>
  /\ Range(remote) = Range(books)

\* the latest event is a getById whose remote request was rejected for an id
\* the remote does not have
Rejected ==
  /\ last.op = "getById" /\ last.phase = "return" /\ last.path = "failure"
  /\ ~RemoteHas(last.id)

\* this step settles such a request
RejectedStep == nOps' = nOps /\ inflight' # inflight /\ Rejected'

\* positions of the Local Collection at which a lookup of the id stops
Stops(id) == {i \in 1..Len(books) : books[i] = Hole \/ books[i].id = id}

\* the event returns the entity the lookup of its id finds, or undefined
ReturnsLookup(ev) ==
  IF \E i \in 1..Len(books) : books[i] # Hole /\ books[i].id = ev.id
  THEN ev.retKind = "entity" /\ ev.ent.id = ev.id /\ ev.ent \in Range(books)
  ELSE ev.retKind = "undefined"

\* what C36 says of one step: the rejected request lowers the flag and
\* returns the lookup's result, nothing raises the flag after it, and an
\* operation invoked while the flag is false runs Offline
RejectedForGoodStep ==
  /\ RejectedStep => (~isOnline' /\ ReturnsLookup(last'))
  /\ (Rejected /\ ~isOnline) => ~isOnline'
  /\ (BranchesOnFlag /\ ~isOnline) => last'.path = "offline"

CompletesAsLookup(ev) ==
  IF Stops(ev.id) = {} THEN ev.retKind = "undefined"
  ELSE LET m == CHOOSE i \in Stops(ev.id) : \A j \in Stops(ev.id) : i <= j IN
       IF books[m] = Hole THEN ev.retKind = "throw"
       ELSE ev.retKind = "entity" /\ ev.ent = books[m]

RejectedGetByIdStep ==
  /\ RejectedStep =>
       /\ ~isOnline'
       /\ CompletesAsLookup(last')
       /\ UNCHANGED <<books, pendingChanges, remote>>
  /\ (~isOnline /\ isOnline') => (ProbeSettles /\ apiUp)
  /\ (BranchesOnFlag /\ ~isOnline) => last'.path = "offline"

ReplayCalls == Len(syncLog) + (IF sync.pc = "await" THEN 1 ELSE 0)

\* C37: provided every remote call eventually either succeeds or fails, every
\* operation eventually returns, and a replay pass terminates after issuing
\* at most as many remote calls as the queue held entries when the pass
\* started, also when operations enqueue new changes during the pass.
C37_ReplayBoundedAndReturns ==
  /\ [](ReplayCalls <= Len(sync.start))
  /\ (inflight # <<>>) ~> (inflight = <<>>)
  /\ (sync.pc = "await") ~> (sync.pc = "done")

====
